---- MODULE Spec2Model ----
(***************************************************************************)
(* The filter / aggregate / reshape pipeline of the 24-hour movement       *)
(* behaviour dashboard, in its two variants src/app.py and src/App.py.     *)
(* One run of a script is one pass load -> clean -> sidebar -> filters ->  *)
(* grouped means -> (closure check) -> panels -> (scatter) -> wide table.  *)
(* Tables are sequences of rows (records keyed by the CSV column names).   *)
(***************************************************************************)
EXTENDS Integers, Sequences, FiniteSets, TLC

VARIABLES
    script,             \* which variant runs: "app.py" or "App.py"
    closure_col,        \* whether the CSV has a Data_Closure_24hr_Sum column
    raw,                \* the table as read_csv returns it
    df,                 \* the cleaned table
    sel,                \* the multiselect widgets' values, per filter column
    subgroup_mode,      \* the radio widget of App.py
    chosen_groups,      \* the "Specific subgroups" multiselect of App.py
    df_f,               \* the filtered table
    arith, geo,         \* the rows of df_f of each mean type
    arith_means, geo_means,
    invalid_closure,    \* the rows the closure check reports
    selected_behavior,  \* the selectbox of App.py's scatter panel
    wide,               \* the wide study-level table
    msgs,               \* the st.warning / st.info / st.error / st.success shown
    pc                  \* the position in the script

vars == <<script, closure_col, raw, df, sel, subgroup_mode, chosen_groups, df_f,
          arith, geo, arith_means, geo_means, invalid_closure,
          selected_behavior, wide, msgs, pc>>

----------------------------------------------------------------------------
(* Bounds of the model. *)

\* the largest number of rows of the CSV
MaxRows == 2

----------------------------------------------------------------------------
(* Cell values. *)

\* a missing cell of a text column (pandas NaN / None)
Missing == "<NaN>"

\* a missing cell of a numeric column (what to_numeric(errors="coerce") leaves)
NaN == -1

\* the closure a 24-hour composition must have
Closure24h == 1440

\* the texts of the numeric columns that parse, with their values
NumText == ("480" :> 480) @@ ("470" :> 470) @@ ("100" :> 100) @@ ("30" :> 30)
           @@ ("1440" :> 1440) @@ ("1500" :> 1500)

\* pd.to_numeric(col, errors="coerce") on one cell
ToNumeric(s) == IF s \in DOMAIN NumText THEN NumText[s] ELSE NaN

\* the age-group categories of each variant, in display order
AgeCategories(sc) ==
    IF sc = "app.py" THEN <<"Children", "Adolescents", "Adult", "Unknown">>
    ELSE <<"Children", "Adolescents", "Adult">>

Range(s) == {s[i] : i \in DOMAIN s}

\* pd.Categorical(values, categories=...) on one cell: a value outside the
\* categories, or a missing one, becomes missing
AgeCategorical(sc, v) == IF v \in Range(AgeCategories(sc)) THEN v ELSE Missing

\* the multiselect columns of each variant ("Sleep_Measurement" stands for
\* Sleep_Objective_Yes_No in app.py and Sleep_Measurement_Type in App.py)
FilterColumns(sc) ==
    IF sc = "app.py"
    THEN <<"Age_Group", "Device_Brand", "Sampling_Rate_Hz", "Sleep_Measurement",
           "Country">>
    ELSE <<"Age_Group", "Device_Brand", "Device_Type", "Country",
           "Sampling_Rate_Hz", "Sleep_Measurement">>

AllColumns == {"Age_Group", "Device_Brand", "Device_Type", "Country",
               "Sampling_Rate_Hz", "Sleep_Measurement"}

\* whether a cell of column c is missing (Sampling_Rate_Hz is numeric)
IsNull(c, v) == IF c = "Sampling_Rate_Hz" THEN v = NaN ELSE v = Missing

----------------------------------------------------------------------------
(* The CSV files the runs are drawn from. *)

RawRow(study, sub, age, beh, mt, mins, brand, type, country, rate, sleep, clo) ==
    [StudyID |-> study, Subgroup |-> sub, Age_Group |-> age, Behavior |-> beh,
     Mean_Type |-> mt, Minutes |-> mins, Device_Brand |-> brand,
     Device_Type |-> type, Country |-> country, Sampling_Rate_Hz |-> rate,
     Sleep_Measurement |-> sleep, Data_Closure_24hr_Sum |-> clo]

\* a row with no device, country, rate or sleep information
BareRow == RawRow("S1", Missing, "Adult", "Sleep", "Arithmetic", "480",
                  Missing, Missing, Missing, Missing, Missing, "1440")

\* a row with every attribute reported
FullRow == RawRow("S1", Missing, "Adult", "Sleep", "Arithmetic", "480",
                  "ActiGraph", Missing, "CA", "30", "Yes", "1440")

\* rows that differ in the attributes the multiselects filter on
FilterRows ==
    {[BareRow EXCEPT !.Age_Group = a] :
        a \in {"Adult", "Children", "Unknown", Missing, "Elderly"}}
    \cup {[BareRow EXCEPT !.Device_Brand = b] : b \in {"ActiGraph", "Axivity"}}
    \cup {[BareRow EXCEPT !.Device_Type = "Wrist"],
          [BareRow EXCEPT !.Country = "CA"],
          [BareRow EXCEPT !.Sampling_Rate_Hz = "30"],
          [BareRow EXCEPT !.Sleep_Measurement = "Yes"],
          [BareRow EXCEPT !.Device_Brand = "ActiGraph", !.Country = "CA"]}

\* rows that differ in the raw subgroup label
SubgroupRows ==
    {[BareRow EXCEPT !.Subgroup = s] :
        s \in {"", "full", "FULL", "NA", "Full", "Male"}}

\* rows that differ in the closure sum
ClosureRows ==
    {[BareRow EXCEPT !.Data_Closure_24hr_Sum = c] : c \in {"1500", Missing}}

\* rows that differ in study, subgroup, mean type, behavior and minutes
MeasureRows ==
    {[FullRow EXCEPT !.StudyID = s, !.Subgroup = g, !.Mean_Type = m,
                     !.Minutes = x] :
        s \in {"S1", "S2"}, g \in {Missing, "Male"},
        m \in {"Arithmetic", "Geometric"}, x \in {"480", "n/a"}}
    \cup {[FullRow EXCEPT !.Minutes = "470", !.Mean_Type = m] :
        m \in {"Arithmetic", "Geometric"}}
    \cup {[FullRow EXCEPT !.Subgroup = "Male", !.Minutes = "470"]}
    \cup {[FullRow EXCEPT !.Behavior = "LPA", !.Minutes = "100", !.Mean_Type = m] :
        m \in {"Arithmetic", "Geometric"}}
    \cup {[FullRow EXCEPT !.Behavior = "Sedentary", !.Minutes = "470"],
          [FullRow EXCEPT !.Age_Group = "Children", !.Minutes = "470"]}

\* the files of the runs that exercise the filters
FilterPool == FilterRows \cup SubgroupRows

\* the files of the runs that exercise the means, the closure check and the
\* wide table
MeasurePool == MeasureRows \cup ClosureRows

Tables(pool, n) == UNION {[1..k -> pool] : k \in 0..n}

----------------------------------------------------------------------------
(* State after the imports: nothing is loaded yet. *)

NoSelection == [c \in AllColumns |-> {}]

NoWide == [keys |-> FALSE, acols |-> {}, gcols |-> {}, rows |-> <<>>]

InitFrom(pool) ==
    /\ script \in {"app.py", "App.py"}
    /\ closure_col \in BOOLEAN
    /\ (script = "App.py" => closure_col = FALSE)
    /\ raw \in Tables(pool, MaxRows)
    /\ df = <<>>
    /\ sel = NoSelection
    /\ subgroup_mode = "Full sample only"
    /\ chosen_groups = {}
    /\ df_f = <<>>
    /\ arith = <<>>
    /\ geo = <<>>
    /\ arith_means = <<>>
    /\ geo_means = <<>>
    /\ invalid_closure = <<>>
    /\ selected_behavior = Missing
    /\ wide = NoWide
    /\ msgs = {}
    /\ pc = "load"

----------------------------------------------------------------------------
(* CLEAN + FIX TYPES *)

\* app.py lines 21-30: every numeric column coerced, Age_Group made categorical
CleanRow_app(r) ==
    [r EXCEPT !.Minutes = ToNumeric(r.Minutes),
              !.Sampling_Rate_Hz = ToNumeric(r.Sampling_Rate_Hz),
              !.Data_Closure_24hr_Sum = ToNumeric(r.Data_Closure_24hr_Sum),
              !.Age_Group = AgeCategorical("app.py", r.Age_Group)]

\* App.py lines 9-23: numeric columns as parsed, Age_Group made categorical
CleanRow_App(r) ==
    [r EXCEPT !.Minutes = ToNumeric(r.Minutes),
              !.Sampling_Rate_Hz = ToNumeric(r.Sampling_Rate_Hz),
              !.Data_Closure_24hr_Sum = ToNumeric(r.Data_Closure_24hr_Sum),
              !.Age_Group = AgeCategorical("App.py", r.Age_Group)]

\* App.py line 16: df[df["Age_Group"].isin(["Children", "Adolescents", "Adult"])]
RemoveUnknown(t) ==
    SelectSeq(t, LAMBDA r : r.Age_Group \in {"Children", "Adolescents", "Adult"})

Clean ==
    /\ pc = "load"
    /\ df' = IF script = "app.py"
             THEN [i \in DOMAIN raw |-> CleanRow_app(raw[i])]
             ELSE LET kept == RemoveUnknown(raw)
                  IN  [i \in DOMAIN kept |-> CleanRow_App(kept[i])]
    /\ pc' = "sidebar"
    /\ UNCHANGED <<script, closure_col, raw, sel, subgroup_mode, chosen_groups,
                   df_f, arith, geo, arith_means, geo_means, invalid_closure,
                   selected_behavior, wide, msgs>>

----------------------------------------------------------------------------
(* SIDEBAR FILTERS *)

ColumnValues(t, c) == {t[i][c] : i \in DOMAIN t}

\* sorted(df[column].dropna().unique()): the values of the column, none missing
DropnaUnique(t, c) == {v \in ColumnValues(t, c) : ~IsNull(c, v)}

\* the options each multiselect offers
\* app.py lines 37-65: Age_Group offers unique() as it is, missing included
\* App.py lines 32-41: auto_multiselect offers dropna().unique()
Options(sc, t, c) ==
    IF sc = "app.py" /\ c = "Age_Group" THEN ColumnValues(t, c)
    ELSE IF c \in Range(FilterColumns(sc)) THEN DropnaUnique(t, c)
    ELSE {}

\* the value a multiselect has before the user touches it
DefaultSelection(sc, t, c) ==
    IF sc = "app.py" /\ c # "Age_Group" THEN {} ELSE Options(sc, t, c)

\* the user leaves each multiselect at any subset of its options
Sidebar ==
    /\ pc = "sidebar"
    /\ \E a \in SUBSET Options(script, df, "Age_Group"),
          b \in SUBSET Options(script, df, "Device_Brand"),
          t \in SUBSET Options(script, df, "Device_Type"),
          c \in SUBSET Options(script, df, "Country"),
          h \in SUBSET Options(script, df, "Sampling_Rate_Hz"),
          m \in SUBSET Options(script, df, "Sleep_Measurement") :
          sel' = [Age_Group |-> a, Device_Brand |-> b, Device_Type |-> t,
                  Country |-> c, Sampling_Rate_Hz |-> h, Sleep_Measurement |-> m]
    /\ \E m \in {"Full sample only", "All subgroups", "Specific subgroups"} :
          /\ (script = "app.py" => m = "Full sample only")
          /\ subgroup_mode' = m
    /\ pc' = "filters"
    /\ UNCHANGED <<script, closure_col, raw, df, chosen_groups, df_f, arith, geo,
                   arith_means, geo_means, invalid_closure, selected_behavior,
                   wide, msgs>>

----------------------------------------------------------------------------
(* APPLY FILTERS *)

\* the filter without its "if flt:" guard: an empty selection excludes every row
FilterColumnUnguarded(t, c, flt) == SelectSeq(t, LAMBDA r : r[c] \in flt)

\* the filter taking its rows from df instead of the table filtered so far
FilterColumnFromDf(t, c, flt) ==
    IF flt # {} THEN SelectSeq(df, LAMBDA r : r[c] \in flt) ELSE t

\* if flt: t = t[t[column].isin(flt)]
FilterColumn(t, c, flt) ==
    IF flt # {} THEN SelectSeq(t, LAMBDA r : r[c] \in flt) ELSE t

\* the multiselect filters one after the other, in the script's order
RECURSIVE ApplyFrom(_, _, _, _)
ApplyFrom(k, cols, t, s) ==
    IF k > Len(cols) THEN t
    ELSE ApplyFrom(k + 1, cols, FilterColumn(t, cols[k], s[cols[k]]), s)

BasicFilters(sc, t, s) == ApplyFrom(1, FilterColumns(sc), t, s)

\* app.py lines 70-88, App.py lines 66-74
ApplyFilters ==
    /\ pc = "filters"
    /\ df_f' = BasicFilters(script, df, sel)
    /\ pc' = IF script = "app.py" THEN "means" ELSE "subgroup"
    /\ UNCHANGED <<script, closure_col, raw, df, sel, subgroup_mode,
                   chosen_groups, arith, geo, arith_means, geo_means,
                   invalid_closure, selected_behavior, wide, msgs>>

\* the normalization with "NA" left out of the replace map
Subgroup_cleanWithoutNA(v) ==
    IF v = Missing THEN "Full"
    ELSE IF v \in {"", "full", "FULL"} THEN "Full"
    ELSE v

\* App.py lines 49-53 and 77-81: fillna("Full").replace({...}) on one cell
Subgroup_clean(v) ==
    IF v = Missing THEN "Full"
    ELSE IF v \in {"", "full", "FULL", "NA"} THEN "Full"
    ELSE v

\* App.py line 56: the subgroups the "Specific subgroups" multiselect offers
subgroups_available(t) ==
    {Subgroup_clean(t[i].Subgroup) : i \in DOMAIN t} \ {"Full"}

\* App.py lines 84-95
SubgroupMode(t, mode, chosen) ==
    IF mode = "Full sample only"
    THEN SelectSeq(t, LAMBDA r : Subgroup_clean(r.Subgroup) = "Full")
    ELSE IF mode = "Specific subgroups" /\ chosen # {}
    THEN SelectSeq(t, LAMBDA r : Subgroup_clean(r.Subgroup) \in chosen)
    ELSE t

ApplySubgroupMode ==
    /\ pc = "subgroup"
    /\ \E chosen \in SUBSET subgroups_available(df) :
          /\ (subgroup_mode # "Specific subgroups" => chosen = {})
          /\ chosen_groups' = chosen
          /\ df_f' = SubgroupMode(df_f, subgroup_mode, chosen)
          /\ msgs' = IF subgroup_mode = "Specific subgroups" /\ chosen = {}
                     THEN msgs \cup {"Select at least one subgroup or switch mode."}
                     ELSE msgs
    /\ pc' = "means"
    /\ UNCHANGED <<script, closure_col, raw, df, sel, subgroup_mode, arith, geo,
                   arith_means, geo_means, invalid_closure, selected_behavior,
                   wide>>

----------------------------------------------------------------------------
(* SPLIT BY MEAN TYPE, COMPUTE MEANS *)

\* the texts the sorts compare, in Python's string order
TextOrder == <<"", "ActiGraph", "Axivity", "CA", "FULL", "Full", "LPA", "MVPA",
               "Male", "NA", "S1", "S2", "SB", "Sedentary", "Sleep", "Wrist",
               "Yes", "full">>

Rank(order, v) == CHOOSE i \in DOMAIN order : order[i] = v

TextLess(a, b) == Rank(TextOrder, a) < Rank(TextOrder, b)

\* sorted(values) of a set of texts
RECURSIVE SortedTexts(_)
SortedTexts(S) ==
    IF S = {} THEN <<>>
    ELSE LET m == CHOOSE x \in S : \A y \in S \ {x} : TextLess(x, y)
         IN  <<m>> \o SortedTexts(S \ {m})

\* the sum of the Minutes of the rows of t at the positions in idx
RECURSIVE SumMinutes(_, _)
SumMinutes(t, idx) ==
    IF idx = {} THEN 0
    ELSE LET i == CHOOSE j \in idx : TRUE
         IN  t[i].Minutes + SumMinutes(t, idx \ {i})

\* a mean is kept exact, as the sum and the number of the values averaged;
\* the mean of no value is missing
NoMean == [sum |-> 0, n |-> 0]

\* the mean with a missing value counted as a zero (fillna(0) before mean())
MeanMinutesZeroFilled(t, idx) ==
    LET present == {i \in idx : t[i].Minutes # NaN}
    IN  IF idx = {} THEN NoMean
        ELSE [sum |-> SumMinutes(t, present), n |-> Cardinality(idx)]

\* Series.mean() of the Minutes at the positions in idx: missing values skipped
MeanMinutes(t, idx) ==
    LET present == {i \in idx : t[i].Minutes # NaN}
    IN  IF present = {} THEN NoMean
        ELSE [sum |-> SumMinutes(t, present), n |-> Cardinality(present)]

\* t.groupby(["Age_Group", "Behavior"], observed=False)["Minutes"].mean()
\* .reset_index(): one row per (category, behavior of t), in the categories'
\* order and the behaviors' sorted order; rows of t with a missing Age_Group
\* belong to no group
GroupedMeans(sc, t) ==
    LET cats == AgeCategories(sc)
        behs == SortedTexts({t[i].Behavior : i \in DOMAIN t})
        nb   == Len(behs)
        cell(a, b) == MeanMinutes(t, {i \in DOMAIN t :
                          t[i].Age_Group = a /\ t[i].Behavior = b})
    IN  [k \in 1..(Len(cats) * nb) |->
            LET a == cats[((k - 1) \div nb) + 1]
                b == behs[((k - 1) % nb) + 1]
            IN  [Age_Group |-> a, Behavior |-> b, Minutes |-> cell(a, b)]]

MeanTypeRows(t, mt) == SelectSeq(t, LAMBDA r : r.Mean_Type = mt)

\* app.py lines 99-116, App.py lines 110-119
ComputeMeans ==
    /\ pc = "means"
    /\ arith' = MeanTypeRows(df_f, "Arithmetic")
    /\ geo' = MeanTypeRows(df_f, "Geometric")
    /\ arith_means' = GroupedMeans(script, arith')
    /\ geo_means' = GroupedMeans(script, geo')
    /\ pc' = IF script = "app.py" THEN "closure" ELSE "panels"
    /\ UNCHANGED <<script, closure_col, raw, df, sel, subgroup_mode,
                   chosen_groups, df_f, invalid_closure, selected_behavior,
                   wide, msgs>>

----------------------------------------------------------------------------
(* 24-HOUR CLOSURE CHECK *)

\* the check with the rows of a missing sum left out of the report
InvalidClosureSkippingMissing(t) ==
    SelectSeq(t, LAMBDA r : r.Data_Closure_24hr_Sum # Closure24h
                            /\ r.Data_Closure_24hr_Sum # NaN)

\* df_f[df_f["Data_Closure_24hr_Sum"] != 1440]: a missing sum differs from 1440
InvalidClosure(t) ==
    SelectSeq(t, LAMBDA r : r.Data_Closure_24hr_Sum # Closure24h)

\* the columns st.dataframe shows of the invalid rows
ClosureReport(t) ==
    [i \in DOMAIN t |-> [StudyID |-> t[i].StudyID, Subgroup |-> t[i].Subgroup,
                         Data_Closure_24hr_Sum |-> t[i].Data_Closure_24hr_Sum]]

\* app.py lines 123-136
ClosureCheck ==
    /\ pc = "closure"
    /\ IF closure_col
       THEN /\ invalid_closure' = ClosureReport(InvalidClosure(df_f))
            /\ msgs' = msgs \cup
                 {IF Len(InvalidClosure(df_f)) > 0
                  THEN "rows do NOT sum to 24 hours!"
                  ELSE "All studies show proper 24-hour closure."}
       ELSE /\ invalid_closure' = invalid_closure
            /\ msgs' = msgs \cup {"No closure information available in dataset."}
    /\ pc' = "panels"
    /\ UNCHANGED <<script, closure_col, raw, df, sel, subgroup_mode,
                   chosen_groups, df_f, arith, geo, arith_means, geo_means,
                   selected_behavior, wide>>

----------------------------------------------------------------------------
(* PLOTS: ARITHMETIC vs GEOMETRIC *)

\* app.py lines 143-175, App.py lines 121-155: a chart, or a message when the
\* table of means has no row
Panels ==
    /\ pc = "panels"
    /\ msgs' = msgs
         \cup (IF Len(arith_means) = 0 THEN {"No arithmetic data"} ELSE {})
         \cup (IF Len(geo_means) = 0 THEN {"No geometric data"} ELSE {})
    /\ pc' = IF script = "app.py" THEN "wide" ELSE "scatter"
    /\ UNCHANGED <<script, closure_col, raw, df, sel, subgroup_mode,
                   chosen_groups, df_f, arith, geo, arith_means, geo_means,
                   invalid_closure, selected_behavior, wide>>

\* App.py lines 164-174: the behavior the selectbox holds (None with no option),
\* and the rows of that behavior
Scatter ==
    /\ pc = "scatter"
    /\ LET options == {df_f[i].Behavior : i \in DOMAIN df_f}
       IN  \E b \in options \cup {Missing} :
              /\ (b = Missing) = (options = {})
              /\ selected_behavior' = b
              /\ msgs' = IF Len(SelectSeq(df_f, LAMBDA r : r.Behavior = b)) = 0
                         THEN msgs \cup {"No data available for this behavior"}
                         ELSE msgs
    /\ pc' = "wide"
    /\ UNCHANGED <<script, closure_col, raw, df, sel, subgroup_mode,
                   chosen_groups, df_f, arith, geo, arith_means, geo_means,
                   invalid_closure, wide>>

----------------------------------------------------------------------------
(* WIDE STUDY-LEVEL TABLE *)

\* the index columns of the pivot (StudyID_display is a label of StudyID and
\* follows it)
\* app.py lines 201-205 and 227-231, App.py lines 326 and 345
WideKeys(sc) ==
    IF sc = "app.py"
    THEN <<"StudyID", "Subgroup", "Age_Group", "Country", "Device_Brand",
           "Sampling_Rate_Hz", "Sleep_Measurement">>
    ELSE <<"StudyID", "Subgroup">>

KeyOf(sc, r) == [c \in Range(WideKeys(sc)) |-> r[c]]

\* the order of two cells of one column: categories by position, numbers by
\* value, texts as Python compares them
CellLess(sc, c, a, b) ==
    IF c = "Age_Group"
    THEN Rank(AgeCategories(sc), a) < Rank(AgeCategories(sc), b)
    ELSE IF c = "Sampling_Rate_Hz" THEN a < b
    ELSE TextLess(a, b)

\* lexicographic order of two keys on the columns cols
RECURSIVE KeyLessFrom(_, _, _, _, _)
KeyLessFrom(sc, cols, k, x, y) ==
    IF k > Len(cols) THEN FALSE
    ELSE IF x[cols[k]] = y[cols[k]] THEN KeyLessFrom(sc, cols, k + 1, x, y)
    ELSE CellLess(sc, cols[k], x[cols[k]], y[cols[k]])

KeyLess(sc, cols, x, y) == KeyLessFrom(sc, cols, 1, x, y)

\* the keys of a set in index order
RECURSIVE SortedKeys(_, _)
SortedKeys(sc, S) ==
    IF S = {} THEN <<>>
    ELSE LET m == CHOOSE x \in S :
                    \A y \in S \ {x} : KeyLess(sc, WideKeys(sc), x, y)
         IN  <<m>> \o SortedKeys(sc, S \ {m})

\* the rows pivot_table groups: groupby drops a row with a missing index cell,
\* and a missing Minutes adds nothing to any cell
PivotRows(sc, t) ==
    {i \in DOMAIN t :
        /\ t[i].Minutes # NaN
        /\ \A c \in Range(WideKeys(sc)) : ~IsNull(c, t[i][c])}

\* pivot_table(index=keys, columns="Behavior", values="Minutes",
\* aggfunc="mean").reset_index(): one row per key, one column per behavior
PivotTable(sc, t) ==
    LET kept == PivotRows(sc, t)
        cols == {t[i].Behavior : i \in kept}
        keys == SortedKeys(sc, {KeyOf(sc, t[i]) : i \in kept})
    IN  [keys |-> TRUE, cols |-> cols,
         rows |-> [j \in DOMAIN keys |->
            [key |-> keys[j],
             cells |-> [b \in cols |-> MeanMinutes(t, {i \in kept :
                            KeyOf(sc, t[i]) = keys[j] /\ t[i].Behavior = b})]]]]

\* pd.DataFrame(): no row and no column
EmptyFrame == [keys |-> FALSE, cols |-> {}, rows |-> <<>>]

\* app.py lines 187-220
make_wide(df_subset) ==
    IF \A i \in DOMAIN df_subset : df_subset[i].Minutes = NaN
    THEN EmptyFrame
    ELSE PivotTable("app.py", df_subset)

KeysOf(w) == {w.rows[j].key : j \in DOMAIN w.rows}

\* the cells of key k in w, missing under every column when w has no such key
CellsOf(w, k) ==
    IF k \in KeysOf(w)
    THEN w.rows[CHOOSE j \in DOMAIN w.rows : w.rows[j].key = k].cells
    ELSE [b \in w.cols |-> NoMean]

\* pd.merge(a, g, on=keys, how="outer"): every key of either side, in key order
MergeOuter(sc, a, g) ==
    LET keys == SortedKeys(sc, KeysOf(a) \cup KeysOf(g))
    IN  [keys |-> TRUE, acols |-> a.cols, gcols |-> g.cols,
         rows |-> [j \in DOMAIN keys |->
            [key |-> keys[j], A |-> CellsOf(a, keys[j]),
             G |-> CellsOf(g, keys[j])]]]

\* one side alone: the other mean type's columns are not in the table
OnlyA(a) ==
    [keys |-> a.keys, acols |-> a.cols, gcols |-> {},
     rows |-> [j \in DOMAIN a.rows |->
        [key |-> a.rows[j].key, A |-> a.rows[j].cells, G |-> <<>>]]]

OnlyG(g) ==
    [keys |-> g.keys, acols |-> {}, gcols |-> g.cols,
     rows |-> [j \in DOMAIN g.rows |->
        [key |-> g.rows[j].key, A |-> <<>>, G |-> g.rows[j].cells]]]

\* app.py lines 233-238: a frame is .empty when it has no row
MergeWide(a, g) ==
    IF Len(a.rows) > 0 /\ Len(g.rows) > 0 THEN MergeOuter("app.py", a, g)
    ELSE IF Len(a.rows) > 0 THEN OnlyA(a)
    ELSE OnlyG(g)

\* a stable sort of rows on the columns cols
RECURSIVE InsertRow(_, _, _, _)
InsertRow(sc, cols, sorted, r) ==
    IF sorted = <<>> THEN <<r>>
    ELSE IF KeyLess(sc, cols, r.key, sorted[Len(sorted)].key)
    THEN Append(InsertRow(sc, cols, SubSeq(sorted, 1, Len(sorted) - 1), r),
                sorted[Len(sorted)])
    ELSE Append(sorted, r)

RECURSIVE SortRows(_, _, _)
SortRows(sc, cols, rows) ==
    IF rows = <<>> THEN <<>>
    ELSE InsertRow(sc, cols, SortRows(sc, cols, SubSeq(rows, 1, Len(rows) - 1)),
                   rows[Len(rows)])

\* app.py line 241: wide.sort_values(["StudyID", "Subgroup", "Age_Group"])
sort_values(w) ==
    [w EXCEPT !.rows = SortRows("app.py", <<"StudyID", "Subgroup", "Age_Group">>,
                                w.rows)]

\* app.py lines 182-243; sort_values raises KeyError on a frame without the
\* StudyID column
WideTable_app ==
    /\ pc = "wide"
    /\ script = "app.py"
    /\ IF Len(df_f) = 0
       THEN /\ msgs' = msgs \cup {"No rows match your current filters."}
            /\ wide' = wide
            /\ pc' = "done"
       ELSE LET merged == MergeWide(make_wide(arith), make_wide(geo))
            IN  /\ msgs' = msgs
                /\ IF merged.keys
                   THEN wide' = sort_values(merged) /\ pc' = "done"
                   ELSE wide' = merged /\ pc' = "KeyError"
    /\ UNCHANGED <<script, closure_col, raw, df, sel, subgroup_mode,
                   chosen_groups, df_f, arith, geo, arith_means, geo_means,
                   invalid_closure, selected_behavior>>

\* App.py line 315
behaviors == {"Sleep", "SB", "LPA", "MVPA"}

\* App.py lines 318-348
WideTable_App ==
    /\ pc = "wide"
    /\ script = "App.py"
    /\ LET df_beh4 == SelectSeq(df_f, LAMBDA r : r.Behavior \in behaviors)
           wide_arith == PivotTable("App.py", MeanTypeRows(df_beh4, "Arithmetic"))
           wide_geo == PivotTable("App.py", MeanTypeRows(df_beh4, "Geometric"))
       IN  IF Len(df_beh4) = 0
           THEN /\ msgs' = msgs \cup {"No behavior data available for current filters."}
                /\ wide' = wide
           ELSE /\ msgs' = msgs
                /\ wide' = MergeOuter("App.py", wide_arith, wide_geo)
    /\ pc' = "done"
    /\ UNCHANGED <<script, closure_col, raw, df, sel, subgroup_mode,
                   chosen_groups, df_f, arith, geo, arith_means, geo_means,
                   invalid_closure, selected_behavior>>

Next ==
    \/ Clean
    \/ Sidebar
    \/ ApplyFilters
    \/ ApplySubgroupMode
    \/ ComputeMeans
    \/ ClosureCheck
    \/ Panels
    \/ Scatter
    \/ WideTable_app
    \/ WideTable_App

InitFilter == InitFrom(FilterPool)

InitMeasure == InitFrom(MeasurePool)

\* the runs over the files of FilterPool
SpecFilter == InitFilter /\ [][Next]_vars

\* the runs over the files of MeasurePool
SpecMeasure == InitMeasure /\ [][Next]_vars
----------------------------------------------------------------------------
(* Positions of a run. *)

\* df_f holds the result of the multiselect filters
AfterBasicFilters ==
    \/ script = "app.py" /\ pc \notin {"load", "sidebar", "filters"}
    \/ script = "App.py" /\ pc = "subgroup"

\* df_f holds the result of App.py's subgroup mode
AfterSubgroupMode ==
    script = "App.py" /\ pc \notin {"load", "sidebar", "filters", "subgroup"}

\* a row that every non-empty selection contains
Passes(r) ==
    \A c \in Range(FilterColumns(script)) : sel[c] # {} => r[c] \in sel[c]

\* a row that every non-empty selection but column c0's contains
PassesExcept(r, c0) ==
    \A c \in Range(FilterColumns(script)) \ {c0} : sel[c] # {} => r[c] \in sel[c]

RowsPassing == SelectSeq(df, Passes)

----------------------------------------------------------------------------
(* C1 *)

\* C1: after the multiselect filters, the filtered table is exactly the rows
\* of the source table that, for each column whose selection is not empty,
\* hold a value of that selection; an empty selection constrains nothing.
C1_FilteredExactly == AfterBasicFilters => df_f = RowsPassing

\* two selections are set and one is empty while a row holds a value of that
\* column; one of two rows is kept
C1_Witness ==
    /\ AfterBasicFilters
    /\ script = "App.py"
    /\ sel.Device_Brand # {} /\ sel.Age_Group # {} /\ sel.Country = {}
    /\ Len(df) = 2 /\ Len(df_f) = 1
    /\ df_f[1].Country = "CA"

----------------------------------------------------------------------------
(* C2 *)

\* C2: filter neutrality. For every filter column, when the selection is the
\* whole list of options the dashboard offers, the filtered table is the one
\* obtained with that column left unfiltered (as with an empty selection).
C2_FilterNeutrality ==
    AfterBasicFilters =>
        \A c \in Range(FilterColumns(script)) :
            sel[c] = Options(script, df, c) =>
                df_f = SelectSeq(df, LAMBDA r : PassesExcept(r, c))

----------------------------------------------------------------------------
(* C3 *)

\* C3: in mode "Specific subgroups", an empty choice leaves an empty filtered
\* table and a warning; a non-empty choice keeps exactly the rows passing the
\* other filters whose normalized subgroup is chosen.
C3_SpecificSubgroups ==
    (AfterSubgroupMode /\ subgroup_mode = "Specific subgroups") =>
        IF chosen_groups = {}
        THEN /\ df_f = <<>>
             /\ "Select at least one subgroup or switch mode." \in msgs
        ELSE df_f = SelectSeq(RowsPassing,
                        LAMBDA r : Subgroup_clean(r.Subgroup) \in chosen_groups)

----------------------------------------------------------------------------
(* C4 *)

\* the raw subgroup labels that mean the whole sample
FullLabels == {Missing, "", "full", "FULL", "NA", "Full"}

\* C4: in mode "Full sample only" the filtered table is exactly the rows
\* passing the other filters whose raw subgroup is missing or one of "",
\* "full", "FULL", "NA", "Full"; these raw values and no other are normalized
\* to "Full"; in mode "All subgroups" the subgroup constrains nothing.
C4_FullSampleOnly ==
    AfterSubgroupMode =>
        /\ subgroup_mode = "Full sample only" =>
              df_f = SelectSeq(RowsPassing, LAMBDA r : r.Subgroup \in FullLabels)
        /\ subgroup_mode = "All subgroups" => df_f = RowsPassing
        /\ \A i \in DOMAIN df :
              (Subgroup_clean(df[i].Subgroup) = "Full") = (df[i].Subgroup \in FullLabels)

\* "Full sample only" has kept a row labelled "NA" and dropped a row labelled
\* "Male"
C4_Witness ==
    /\ AfterSubgroupMode
    /\ subgroup_mode = "Full sample only"
    /\ Len(RowsPassing) = 2 /\ Len(df_f) = 1
    /\ df_f[1].Subgroup = "NA"
    /\ \E i \in DOMAIN df : df[i].Subgroup = "Male"

----------------------------------------------------------------------------
(* C9 *)

\* the filter of column c as one predicate on a row
Keeps(r, c) == sel[c] # {} => r[c] \in sel[c]

\* C9: filters commute. For every pair of filter columns, one filter after the
\* other in either order and both at once give the same table; the table the
\* script holds is the one of all filters at once; and the subgroup mode gives
\* the same table applied before the multiselect filters as after them. (The
\* pairs are compared as the filters are about to run: df and the selections
\* do not change afterwards.)
C9_FiltersCommute ==
    /\ pc = "filters" =>
          \A a, b \in Range(FilterColumns(script)) :
              LET ab == FilterColumn(FilterColumn(df, a, sel[a]), b, sel[b])
                  ba == FilterColumn(FilterColumn(df, b, sel[b]), a, sel[a])
              IN  /\ ab = ba
                  /\ ab = SelectSeq(df, LAMBDA r : Keeps(r, a) /\ Keeps(r, b))
    /\ AfterBasicFilters => df_f = RowsPassing
    /\ AfterSubgroupMode =>
          df_f = BasicFilters(script,
                     SubgroupMode(df, subgroup_mode, chosen_groups), sel)

\* two filters are set, each excludes the row the other keeps
C9_Witness ==
    /\ AfterBasicFilters
    /\ Len(df) = 2 /\ Len(df_f) = 0
    /\ Len(FilterColumn(df, "Device_Brand", sel.Device_Brand)) = 1
    /\ Len(FilterColumn(df, "Country", sel.Country)) = 1
    /\ sel.Device_Brand # {} /\ sel.Country # {}

----------------------------------------------------------------------------
(* C10 *)

\* C10: after the cleaning every row of the source is kept and its Age_Group
\* is one of Children, Adolescents, Adult, Unknown; a row whose raw Age_Group
\* is missing is kept with Age_Group "Unknown".
C10_AgeGroupNormalized ==
    pc # "load" =>
        /\ Len(df) = Len(raw)
        /\ \A i \in DOMAIN df :
              /\ df[i].Age_Group \in {"Children", "Adolescents", "Adult", "Unknown"}
              /\ i \in DOMAIN raw /\ raw[i].Age_Group = Missing
                    => df[i].Age_Group = "Unknown"

----------------------------------------------------------------------------
(* C5 *)

AfterMeans == pc \notin {"load", "sidebar", "filters", "subgroup", "means"}

\* the rows of df_f of mean type mt, age group a and behavior b whose minutes
\* are reported
Contributing(mt, a, b) ==
    {i \in DOMAIN df_f : /\ df_f[i].Mean_Type = mt
                         /\ df_f[i].Age_Group = a
                         /\ df_f[i].Behavior = b
                         /\ df_f[i].Minutes # NaN}

RECURSIVE Total(_)
Total(S) ==
    IF S = {} THEN 0
    ELSE LET i == CHOOSE j \in S : TRUE IN df_f[i].Minutes + Total(S \ {i})

MeansOf(mt) == IF mt = "Arithmetic" THEN arith_means ELSE geo_means

MeanTypes == {"Arithmetic", "Geometric"}

\* the row of the pair (a, b) in the table of means m, if any
RowsOfPair(m, a, b) ==
    {k \in DOMAIN m : m[k].Age_Group = a /\ m[k].Behavior = b}

\* the age groups and behaviors a pair can be made of
PairAges == {"Children", "Adolescents", "Adult", "Unknown", Missing}
PairBehaviors == {"Sleep", "LPA", "Sedentary", "SB", "MVPA"}

----------------------------------------------------------------------------
(* C6 *)

\* the rows of the wide table of study s and subgroup g
WideRowsOf(s, g) ==
    {j \in DOMAIN wide.rows :
        wide.rows[j].key.StudyID = s /\ wide.rows[j].key.Subgroup = g}

\* C6: when the wide table is shown, every (study, subgroup) with a reported
\* minutes value in the Arithmetic or in the Geometric rows of the filtered
\* table, a missing subgroup included, is exactly one row of it, with the
\* columns of both mean types.
C6_EveryKeyOneRow ==
    pc = "done" =>
        \A i \in DOMAIN df_f :
            (df_f[i].Minutes # NaN /\ df_f[i].Mean_Type \in MeanTypes) =>
                /\ Cardinality(WideRowsOf(df_f[i].StudyID, df_f[i].Subgroup)) = 1
                /\ \A j \in WideRowsOf(df_f[i].StudyID, df_f[i].Subgroup) :
                      /\ DOMAIN wide.rows[j].A = wide.acols
                      /\ DOMAIN wide.rows[j].G = wide.gcols

----------------------------------------------------------------------------
(* C7 *)

AfterClosureCheck ==
    script = "app.py" /\ closure_col /\ pc \notin
        {"load", "sidebar", "filters", "subgroup", "means", "closure"}

ValidRows == {i \in DOMAIN df_f : df_f[i].Data_Closure_24hr_Sum = 1440}

InvalidRows == {i \in DOMAIN df_f : df_f[i].Data_Closure_24hr_Sum # 1440}

\* C7: closure completeness. With a closure-sum column, the rows reported
\* invalid and the rows whose sum is 1440 add up to the filtered table; the
\* report lists, in order, exactly the rows whose sum differs from 1440 or is
\* missing, each with its own sum; an error is shown exactly when there is
\* such a row; and the filtered table is left as the filters made it.
C7_ClosureComplete ==
    AfterClosureCheck =>
        /\ Len(invalid_closure) + Cardinality(ValidRows) = Len(df_f)
        /\ \E f \in [DOMAIN invalid_closure -> InvalidRows] :
              /\ \A j, k \in DOMAIN invalid_closure : j < k => f[j] < f[k]
              /\ \A j \in DOMAIN invalid_closure :
                    /\ invalid_closure[j].StudyID = df_f[f[j]].StudyID
                    /\ invalid_closure[j].Subgroup = df_f[f[j]].Subgroup
                    /\ invalid_closure[j].Data_Closure_24hr_Sum =
                           df_f[f[j]].Data_Closure_24hr_Sum
        /\ Len(invalid_closure) = Cardinality(InvalidRows)
        /\ ("rows do NOT sum to 24 hours!" \in msgs) = (InvalidRows # {})
        /\ ("All studies show proper 24-hour closure." \in msgs) = (InvalidRows = {})
        /\ df_f = RowsPassing

\* a row of sum 1440 is left out of a report that lists a row of sum 1500
C7_Witness ==
    /\ AfterClosureCheck
    /\ Len(df_f) = 2 /\ Len(invalid_closure) = 1
    /\ invalid_closure[1].Data_Closure_24hr_Sum = 1500

----------------------------------------------------------------------------
(* C8 *)

\* C8: no empty result becomes a fault: no run ends in an exception, and a
\* run whose filtered table is empty reports it.
C8_NoFault ==
    /\ pc # "KeyError"
    /\ (pc = "done" /\ Len(df_f) = 0) =>
          \/ "No rows match your current filters." \in msgs
          \/ "No behavior data available for current filters." \in msgs

----------------------------------------------------------------------------
(* C11 *)

\* rows i and k of df_f are observations of one (study, subgroup, behavior,
\* mean type)
SameObservation(i, k) ==
    /\ df_f[i].StudyID = df_f[k].StudyID
    /\ df_f[i].Subgroup = df_f[k].Subgroup
    /\ df_f[i].Behavior = df_f[k].Behavior
    /\ df_f[i].Mean_Type = df_f[k].Mean_Type

\* row i is the first of its observation, in the table's order
FirstOfObservation(i) == \A k \in DOMAIN df_f : k < i => ~SameObservation(i, k)

\* the first row of the observation of row i
FirstOf(i) == CHOOSE k \in DOMAIN df_f : SameObservation(i, k) /\ FirstOfObservation(k)

\* a mean m is the single value x (a missing x is a missing mean)
IsValue(m, x) == IF x = NaN THEN m = NoMean ELSE m.n > 0 /\ m.sum = x * m.n

\* the cell of mean type mt and behavior b in the row j of the wide table
WideCells(j, mt) == IF mt = "Arithmetic" THEN wide.rows[j].A ELSE wide.rows[j].G

\* the first rows of the observations of mean type mt, age group a and
\* behavior b whose minutes are reported
FirstContributing(mt, a, b) ==
    {i \in Contributing(mt, a, b) : FirstOfObservation(i)}

\* C11: duplicates are collapsed by keeping the first. When the filtered table
\* holds several rows of one (study, subgroup, behavior, mean type), the cell
\* of the wide table for that key holds the minutes of the first of them, and
\* the grouped means average the first row of each observation only.
C11_KeepFirst ==
    pc = "done" =>
        /\ \A i \in DOMAIN df_f :
              (\E k \in DOMAIN df_f : k # i /\ SameObservation(i, k)) =>
                  \A j \in WideRowsOf(df_f[i].StudyID, df_f[i].Subgroup) :
                      df_f[i].Behavior \in DOMAIN WideCells(j, df_f[i].Mean_Type) =>
                          IsValue(WideCells(j, df_f[i].Mean_Type)[df_f[i].Behavior],
                                  df_f[FirstOf(i)].Minutes)
        /\ \A mt \in MeanTypes, a \in PairAges, b \in PairBehaviors :
              \A k \in RowsOfPair(MeansOf(mt), a, b) :
                  LET firsts == FirstContributing(mt, a, b)
                      m == MeansOf(mt)[k].Minutes
                  IN  IF firsts = {} THEN m = NoMean
                      ELSE m.n > 0 /\ m.sum * Cardinality(firsts) = Total(firsts) * m.n

====
